---- MODULE Spec2Model ----
(***************************************************************************)
(* A model of bugout-python's journal-backed job queue (bugout/jobs.py)    *)
(* together with the client layers it calls (bugout/app.py,                *)
(* bugout/journal.py, bugout/calls.py) and the remote journal it talks to. *)
(*                                                                         *)
(* The client is a marshaling layer: every operation builds one HTTP       *)
(* request (method, path, headers, body or query parameters), sends it and *)
(* turns the response into a result or an exception.  The model keeps that *)
(* shape: the operations of BugoutJobQueue build request records, the      *)
(* journal serves them, and the state records what each call sent, what it *)
(* returned and what it raised.                                            *)
(***************************************************************************)
EXTENDS Integers, Sequences, FiniteSets, TLC

\* ----------------------------------------------------------------- bounds

\* Jobs the journal may hold, cursor entries it may hold, and the last tick
\* of the journal's clock.
MaxJobs == 3
MaxCursors == 2
MaxTime == 2

\* The inputs callers pass: context ids, timestamps, offsets.
ContextIdNames == <<"42", "43", "44", "45", "46", "47">>
ContextIds == {ContextIdNames[i] : i \in 1..MaxJobs}
Times == 0..MaxTime
Offsets == {0, 1}

None == "None"

\* ------------------------------------------------------- program constants

\* A tag is modelled as the sequence of its colon-separated parts, so that the
\* f-string f"{a}:{b}" is <<a, b>>: "job:success" is <<"job", "success">>.
DEFAULT_CONTEXT_TYPE == "job"
DEFAULT_SUCCESS_TAG == <<"job", "success">>
DEFAULT_FAILURE_TAG == <<"job", "failure">>
DEFAULT_CURSOR_CONTEXT_TYPE == "job_cursor"
REQUESTS_TIMEOUT == 5
\* list_jobs' default limit.
DefaultLimit == 10
Limits == {1, DefaultLimit}

\* JobView
REMAINING == "remaining"
SUCCESS == "success"
FAILURE == "failure"
JobView == {REMAINING, SUCCESS, FAILURE}

\* SearchOrder
ASCENDING == "asc"
DESCENDING == "desc"

\* AuthType: name -> value
AuthTypeNames == {"bearer", "web3"}
AuthType(name) == IF name = "bearer" THEN "Bearer" ELSE "Web3"

\* The callers of the queue: consumer processes sharing one configuration.
Procs == {"c1", "c2"}

VARIABLES
    queue,      \* the BugoutJobQueue's configuration (its fields after __init__)
    client,     \* the Bugout facade the queue calls: the timeout field of each
                \* of its sub-clients (self.user, self.group, self.journal)
    journal,    \* the remote journal: the sequence of its entries, oldest first
    clock,      \* the next instant the journal's clock can stamp an entry with
    faults,     \* whether the network and the servers may fail a request
    frame,      \* per caller: the list_jobs call it is in the middle of
    sent,       \* per caller: the requests its last call sent
    ret         \* per caller: what its last call returned or raised

vars == <<queue, client, journal, clock, faults, frame, sent, ret>>

\* ------------------------------------------------------------ plain helpers

Last(s) == s[Len(s)]

Range(s) == {s[i] : i \in 1..Len(s)}

Min2(a, b) == IF a < b THEN a ELSE b

\* s[from+1 .. from+n], as Python's s[from:from+n]
Slice(s, from, n) == SubSeq(s, from + 1, Min2(Len(s), from + n))

\* ---------------------------------------------------------------- timestamps
\* A printed timestamp is the instant and the separator between its date and
\* its time: "2024-01-01 00:00:03" or "2024-01-01T00:00:03".

\* datetime.isoformat()
isoformat(t) == [t |-> t, sep |-> "T"]

\* str.replace(" ", "T")
ReplaceSpaceByT(ts) == [ts EXCEPT !.sep = "T"]

\* -------------------------------------------------------- the remote journal
\* The journal API the client depends on: create entry, update entry tags,
\* search entries.  An entry is
\*   [id, title, content, tags, context_id, context_type, created_at].
\* The journal is kept as the entries of each context type in the order they
\* arrived; an entry's id is opaque to the client, and here it is the context
\* type and the rank: <<"job", 2>>.

StatusOK == 200
StatusConflict == 409
StatusNotFound == 404

\* The journal prints created_at as "date time", which jobs.py 161 rewrites.
JournalTimeSep == " "

EmptyJournal == [ct \in {DEFAULT_CONTEXT_TYPE, DEFAULT_CURSOR_CONTEXT_TYPE, None} |-> <<>>]

Ids(J) == UNION {{<<ct, k>> : k \in 1..Len(J[ct])} : ct \in DOMAIN J}

Entry(J, id) == J[id[1]][id[2]]

EntryUrl(journal_id, id) ==
    [journal_id |-> journal_id, coll |-> "entries", entry_id |-> id, sub |-> ""]

NoEntry == <<None, 0>>

\* POST journals/{journal_id}/entries.  The journal keeps (context_type,
\* context_id) unique (jobs.py 38-39); what it answers to a duplicate is its
\* own business: a conflict, or the entry it already holds.
SrvCreateEntry(J, now, body) ==
    LET ct == body.context_type
        same == {id \in Ids(J) :
                    /\ body.context_id # None
                    /\ Entry(J, id).context_id = body.context_id
                    /\ Entry(J, id).context_type = ct}
        entry == [id |-> <<ct, Len(J[ct]) + 1>>,
                  title |-> body.title,
                  content |-> body.content,
                  tags |-> Range(body.tags),
                  context_id |-> body.context_id,
                  context_type |-> ct,
                  created_at |-> IF "created_at" \in DOMAIN body
                                 THEN body.created_at.t ELSE now]
    IN  IF same # {}
        THEN {[status |-> StatusConflict, journal |-> J, json |-> <<>>]}
             \cup {[status |-> StatusOK, journal |-> J, json |-> <<Entry(J, id)>>]
                    : id \in same}
        ELSE {[status |-> StatusOK,
               journal |-> [J EXCEPT ![ct] = Append(@, entry)],
               json |-> <<entry>>]}

\* PUT journals/{journal_id}/entries/{entry_id}/tags: merge semantics.
SrvUpdateTags_FirstWins(J, id, body) ==
    IF id \in Ids(J)
    THEN IF Cardinality(Entry(J, id).tags \cup Range(body.tags)) > 3
         THEN {[status |-> StatusConflict, journal |-> J, json |-> <<>>]}
         ELSE LET merged == Entry(J, id).tags \cup Range(body.tags)
              IN  {[status |-> StatusOK,
                    journal |-> [J EXCEPT ![id[1]][id[2]].tags = merged],
                    json |-> <<merged>>]}
    ELSE {[status |-> StatusNotFound, journal |-> J, json |-> <<>>]}

SrvUpdateTags_Replace(J, id, body) ==
    IF id \in Ids(J)
    THEN {[status |-> StatusOK,
           journal |-> [J EXCEPT ![id[1]][id[2]].tags = Range(body.tags)],
           json |-> <<Range(body.tags)>>]}
    ELSE {[status |-> StatusNotFound, journal |-> J, json |-> <<>>]}

SrvUpdateTags(J, id, body) ==
    IF id \in Ids(J)
    THEN LET merged == Entry(J, id).tags \cup Range(body.tags)
         IN  {[status |-> StatusOK,
               journal |-> [J EXCEPT ![id[1]][id[2]].tags = merged],
               json |-> <<merged>>]}
    ELSE {[status |-> StatusNotFound, journal |-> J, json |-> <<>>]}

\* DELETE journals/{journal_id}/entries/{entry_id}/tags
SrvDeleteTags(J, id, body) ==
    IF id \in Ids(J)
    THEN LET left == Entry(J, id).tags \ Range(body.tags)
         IN  {[status |-> StatusOK,
               journal |-> [J EXCEPT ![id[1]][id[2]].tags = left],
               json |-> <<left>>]}
    ELSE {[status |-> StatusNotFound, journal |-> J, json |-> <<>>]}

\* One term of the query grammar against one entry.  A bare word is full-text
\* search; no entry of this model contains a time of day in its text.
Matches(e, tok) ==
    CASE tok.key = "context_type" -> e.context_type = tok.val
      [] tok.key = "tag" -> tok.val \in e.tags
      [] tok.key = "!tag" -> tok.val \notin e.tags
      [] tok.key = "created_at:>" -> e.created_at > tok.val
      [] OTHER -> FALSE

\* The orders in which the journal may return the entries `ids`: sorted by
\* created_at in the direction asked for, entries of equal created_at in any
\* order.
Sorted(J, ids, order) ==
    {s \in [1..Cardinality(ids) -> ids] :
        /\ \A i, j \in DOMAIN s : i # j => s[i] # s[j]
        /\ \A i, j \in DOMAIN s : i < j =>
              IF order = ASCENDING
              THEN Entry(J, s[i]).created_at <= Entry(J, s[j]).created_at
              ELSE Entry(J, s[i]).created_at >= Entry(J, s[j]).created_at}

SearchResult(J, journal_id, id, content) ==
    [entry_url |-> EntryUrl(journal_id, id),
     title |-> Entry(J, id).title,
     content |-> IF content THEN Entry(J, id).content ELSE None,
     tags |-> Entry(J, id).tags,
     created_at |-> [t |-> Entry(J, id).created_at, sep |-> JournalTimeSep]]

\* GET journals/{journal_id}/search
SrvSearch(J, journal_id, params) ==
    LET hits == {id \in Ids(J) :
                    \A k \in 1..Len(params.q) : Matches(Entry(J, id), params.q[k])}
    IN  {[status |-> StatusOK,
          journal |-> J,
          json |-> [k \in 1..Len(Slice(s, params.offset, params.limit)) |->
                      SearchResult(J, journal_id,
                                   Slice(s, params.offset, params.limit)[k],
                                   params.content)]]
         : s \in Sorted(J, hits, params.order)}

\* What the journal may answer to a request.
Serve(J, now, req) ==
    CASE req.method = "post" /\ req.path.coll = "entries" /\ req.path.sub = "" ->
            SrvCreateEntry(J, now, req.json)
      [] req.method = "put" /\ req.path.coll = "entries" /\ req.path.sub = "tags" ->
            SrvUpdateTags(J, req.path.entry_id, req.json)
      [] req.method = "delete" /\ req.path.coll = "entries" /\ req.path.sub = "tags" ->
            SrvDeleteTags(J, req.path.entry_id, req.json)
      [] req.method = "get" /\ req.path.coll = "search" ->
            SrvSearch(J, req.path.journal_id, req.params)
      [] OTHER -> {[status |-> StatusNotFound, journal |-> J, json |-> <<>>]}

\* ------------------------------------------------------------- the network
\* What requests.request can meet.  Either a response came back: its status,
\* its Content-Type, its body (whether it decodes as JSON, the value it decodes
\* to, the `detail` a JSON error body carries, its raw text); or none did.
\* With it goes the journal as the request left it.

\* Statuses a server may reject a request with whatever the request is: a
\* token it does not accept, and the last status code HTTP has.
StatusUnauthorized == 401
StatusLast == 599
RejectStatuses == {StatusUnauthorized, StatusLast}

ContentTypes == {"application/json", "application/json; charset=utf-8", "text/html"}

\* The bodies an error response may carry: a JSON object with a `detail`
\* field, a JSON object without one, or text that is not JSON.
Bodies == {"detail", "no detail", "not json"}

\* The journal's own answer: JSON, with a detail when it is an error.
Answer(o) ==
    [answered |-> TRUE, exc |-> None, status |-> o.status, journal |-> o.journal,
     content_type |-> "application/json", decodes |-> TRUE, has_detail |-> TRUE,
     json |-> o.json, detail |-> "detail", text |-> "text"]

\* An error answered by the server or by something in front of it, with the
\* Content-Type header and the body it chose.
Rejection(J, status, content_type, body) ==
    [answered |-> TRUE, exc |-> None, status |-> status, journal |-> J,
     content_type |-> content_type, decodes |-> body # "not json",
     has_detail |-> body = "detail",
     json |-> <<>>, detail |-> "detail", text |-> "text"]

\* No response at all, and the exception requests.request raises: a
\* RequestException for a timeout, a refused connection or a DNS failure, or
\* some other exception raised on the way.
NoResponse(J, exc) ==
    [answered |-> FALSE, exc |-> exc, status |-> 0, journal |-> J,
     content_type |-> None, decodes |-> FALSE, has_detail |-> FALSE,
     json |-> <<>>, detail |-> None, text |-> "err"]

\* What may come of sending req: the journal's answer; and, when requests can
\* fail, a rejection, no response (the journal having served the request or
\* not), or a 2xx answer with a body that is not JSON.
Responses(J, now, req) ==
    LET served == {Answer(o) : o \in Serve(J, now, req)}
    IN  IF ~faults THEN served
        ELSE served
             \cup {Rejection(J, s, ct, b)
                    : s \in RejectStatuses, ct \in ContentTypes, b \in Bodies}
             \cup {NoResponse(j, "RequestException")
                    : j \in {J} \cup {o.journal : o \in served}}
             \cup {NoResponse(J, "Exception")}
             \cup {[o EXCEPT !.decodes = FALSE, !.content_type = "text/html"]
                    : o \in {x \in served : x.status \in 200..299}}

\* ------------------------------------------------------------- the transport

\* The status make_request gives a request that got no response.
NETWORK_ERROR_STATUS == 599

\* Response.raise_for_status raises for these.
IsErrorStatus(status) == status >= 400 /\ status < 600

\* How a call ends: what it raised if it raised, with the status_code and
\* detail the exception carries, else the value it returned; and `http`, the
\* status of the last response the call received, 0 when it received none.
NoStatus == 0

Http(out) == IF out.answered THEN out.status ELSE NoStatus

Outcome(http, raised, status_code, detail, value) ==
    [http |-> http, raised |-> raised, status_code |-> status_code,
     detail |-> detail, value |-> value]

\* calls.py make_request, given what the request met.
\*   lines 13-19: no response
\*   lines 20-28: an error status; the detail read from a body declared
\*                JSON by r.json()["detail"], inside the except clause
\*   line 31: response.json(), outside the try
\*   lines 29-30: any other exception in the try
make_request(out) ==
    IF ~out.answered
    THEN IF out.exc = "RequestException"
         THEN Outcome(Http(out), "BugoutResponseException", NETWORK_ERROR_STATUS,
                      out.text, <<>>)
         ELSE Outcome(Http(out), "BugoutUnexpectedResponse", NoStatus, out.text, <<>>)
    ELSE IF IsErrorStatus(out.status)
    THEN IF out.content_type = "application/json"
         THEN IF ~out.decodes
              THEN Outcome(Http(out), "JSONDecodeError", NoStatus, None, <<>>)
              ELSE IF ~out.has_detail
              THEN Outcome(Http(out), "KeyError", NoStatus, None, <<>>)
              ELSE Outcome(Http(out), "BugoutResponseException", out.status,
                           out.detail, <<>>)
         ELSE Outcome(Http(out), "BugoutResponseException", out.status, out.text, <<>>)
    ELSE IF out.decodes
    THEN Outcome(Http(out), None, NoStatus, None, out.json)
    ELSE Outcome(Http(out), "JSONDecodeError", NoStatus, None, <<>>)

\* requests.post(...) followed by r.raise_for_status() (jobs.py 101-107):
\* requests' own exceptions, and nothing read from the body.
raise_for_status(out) ==
    IF ~out.answered
    THEN Outcome(Http(out), out.exc, NoStatus, None, <<>>)
    ELSE IF IsErrorStatus(out.status)
    THEN Outcome(Http(out), "HTTPError", NoStatus, None, <<>>)
    ELSE Outcome(Http(out), None, NoStatus, None, <<>>)

\* f"{scheme} {token}"
Authorization(scheme, token) == <<scheme, token>>

\* ------------------------------------------------------- the Journal client

\* Journal.create_entry: the request it has Journal._call send.
Journal_create_entry_NoContextId(token, journal_id, title, content, tags, context_url, context_id, context_type, auth_type, timeout) ==
    [method |-> "post",
     path |-> [journal_id |-> journal_id, coll |-> "entries", entry_id |-> NoEntry, sub |-> ""],
     headers |-> [Authorization |-> Authorization(AuthType(auth_type), token)],
     json |-> [title |-> title, content |-> content, tags |-> tags,
               context_url |-> context_url, context_id |-> None,
               context_type |-> context_type],
     timeout |-> timeout]

Journal_create_entry(token, journal_id, title, content, tags, context_url, context_id, context_type, auth_type, timeout) ==
    [method |-> "post",
     path |-> [journal_id |-> journal_id, coll |-> "entries", entry_id |-> NoEntry, sub |-> ""],
     headers |-> [Authorization |-> Authorization(AuthType(auth_type), token)],
     json |-> [title |-> title, content |-> content, tags |-> tags,
               context_url |-> context_url, context_id |-> context_id,
               context_type |-> context_type],
     timeout |-> timeout]

UpdateTagsMethod_Delete == "delete"

\* Journal.update_tags
UpdateTagsMethod == "put"

Journal_update_tags(token, journal_id, entry_id, tags, auth_type, timeout) ==
    [method |-> UpdateTagsMethod,
     path |-> [journal_id |-> journal_id, coll |-> "entries", entry_id |-> entry_id,
               sub |-> "tags"],
     headers |-> [Authorization |-> Authorization(AuthType(auth_type), token)],
     json |-> [tags |-> tags],
     timeout |-> timeout]

\* Journal.search
SearchMethod_Post == "post"

SearchMethod == "get"

Journal_search(token, journal_id, query, limit, offset, content, order, auth_type, timeout) ==
    [method |-> SearchMethod,
     path |-> [journal_id |-> journal_id, coll |-> "search", entry_id |-> NoEntry, sub |-> ""],
     headers |-> [Authorization |-> Authorization(AuthType(auth_type), token)],
     params |-> [q |-> query, filters |-> <<>>, limit |-> limit, offset |-> offset,
                 content |-> content, order |-> order],
     timeout |-> timeout]

\* ------------------------------------------------------- the BugoutJobQueue

\* The terms list_jobs starts its query with (jobs.py 129-146).
ViewComponents_RemainingIgnoresFailure(job_view) ==
    <<[key |-> "context_type", val |-> queue.context_type]>>
    \o (CASE job_view = REMAINING -> <<[key |-> "!tag", val |-> queue.success_tag]>>
          [] job_view = SUCCESS -> <<[key |-> "tag", val |-> queue.success_tag]>>
          [] job_view = FAILURE -> <<[key |-> "tag", val |-> queue.failure_tag]>>
          [] OTHER -> <<>>)

ViewComponents_NoContextType(job_view) ==
    CASE job_view = REMAINING ->
            <<[key |-> "!tag", val |-> queue.success_tag],
              [key |-> "!tag", val |-> queue.failure_tag]>>
      [] job_view = SUCCESS -> <<[key |-> "tag", val |-> queue.success_tag]>>
      [] job_view = FAILURE -> <<[key |-> "tag", val |-> queue.failure_tag]>>
      [] OTHER -> <<>>

ViewComponents(job_view) ==
    <<[key |-> "context_type", val |-> queue.context_type]>>
    \o (CASE job_view = REMAINING ->
                <<[key |-> "!tag", val |-> queue.success_tag],
                  [key |-> "!tag", val |-> queue.failure_tag]>>
          [] job_view = SUCCESS -> <<[key |-> "tag", val |-> queue.success_tag]>>
          [] job_view = FAILURE -> <<[key |-> "tag", val |-> queue.failure_tag]>>
          [] OTHER -> <<>>)

\* The string list_jobs turns the cursor's created_at into (jobs.py 161).
CursorCreatedAt_NoReplace(cursor) == cursor.created_at

CursorCreatedAt(cursor) == ReplaceSpaceByT(cursor.created_at)

\* f"created_at:>{created_at}" as the words the space-joined query gives the
\* journal: one term when the timestamp holds no space, else the term cut
\* after the date (a bound at the start of that day, before every entry of
\* this model) and the time of day as a bare word.
CreatedAtTerm(created_at) ==
    IF created_at.sep = "T"
    THEN <<[key |-> "created_at:>", val |-> created_at.t]>>
    ELSE <<[key |-> "created_at:>", val |-> -1], [key |-> "text", val |-> created_at.t]>>

\* The search for the most recent cursor entry (jobs.py 149-157).
CursorSearchOrder_Ascending == ASCENDING

CursorSearchOrder == DESCENDING

CursorSearch_AnyEntry ==
    Journal_search(queue.bugout_token, queue.journal_id, <<>>,
                   1, 0, FALSE, CursorSearchOrder, queue.auth_type,
                   REQUESTS_TIMEOUT)

CursorSearch ==
    Journal_search(queue.bugout_token, queue.journal_id,
                   <<[key |-> "context_type", val |-> queue.cursor_context_type]>>,
                   1, 0, FALSE, CursorSearchOrder, queue.auth_type,
                   REQUESTS_TIMEOUT)

\* The search for the jobs (jobs.py 164-174).
JobSearchOrder_Descending == DESCENDING

JobSearchOrder == ASCENDING

JobSearch(query_components, limit, offset) ==
    Journal_search(queue.bugout_token, queue.journal_id, query_components,
                   limit, offset, TRUE, JobSearchOrder, queue.auth_type,
                   REQUESTS_TIMEOUT)

\* raw_result.entry_url.split("/")[-1]
EntryIdOf(entry_url) ==
    IF entry_url.sub # "" THEN entry_url.sub ELSE entry_url.entry_id

WithEntryID_FirstId(results) ==
    [k \in 1..Len(results) |->
        [id |-> EntryIdOf(results[1].entry_url),
         entry_url |-> results[k].entry_url,
         title |-> results[k].title,
         content |-> results[k].content,
         tags |-> results[k].tags,
         created_at |-> results[k].created_at]]

\* The list list_jobs returns (jobs.py 176-182).
WithEntryID(results) ==
    [k \in 1..Len(results) |->
        [id |-> EntryIdOf(results[k].entry_url),
         entry_url |-> results[k].entry_url,
         title |-> results[k].title,
         content |-> results[k].content,
         tags |-> results[k].tags,
         created_at |-> results[k].created_at]]

\* ------------------------------------------------------------------- state

NoReturn == [op |-> None, http |-> NoStatus, raised |-> None,
             status_code |-> NoStatus, detail |-> None, value |-> <<>>]

\* A caller's frame: where it is in list_jobs, and, a history of the call it
\* finished last, whether a cursor entry arrived in the journal between the two
\* searches of that call.  NoFrame: no list_jobs call under way.
NoFrame == [pc |-> "idle", raced |-> FALSE]

Idle(p) == frame[p].pc = "idle"

Return(p) == frame' = [frame EXCEPT ![p] = NoFrame]

Jobs(J) == {id \in Ids(J) : Entry(J, id).context_type = queue.context_type}

Cursors(J) == {id \in Ids(J) : Entry(J, id).context_type = queue.cursor_context_type}

\* The model stops the journal from growing past its bounds.
WithinBounds(J) ==
    /\ Cardinality(Jobs(J)) <= MaxJobs
    /\ Cardinality(Cursors(J)) <= MaxCursors

\* BugoutJobQueue.__init__ with the defaults of its other parameters, over a
\* Bugout facade just constructed; an empty journal; no call made.
ConstructedWith(auth_type) ==
    /\ queue = [bugout_token |-> "token",
                journal_id |-> "journal",
                context_type |-> DEFAULT_CONTEXT_TYPE,
                success_tag |-> DEFAULT_SUCCESS_TAG,
                failure_tag |-> DEFAULT_FAILURE_TAG,
                cursor_context_type |-> DEFAULT_CURSOR_CONTEXT_TYPE,
                write_timeout |-> REQUESTS_TIMEOUT,
                auth_type |-> auth_type]
    /\ client = [user |-> REQUESTS_TIMEOUT, group |-> REQUESTS_TIMEOUT,
                 journal |-> REQUESTS_TIMEOUT]
    /\ journal = EmptyJournal
    /\ clock = 0
    /\ frame = [p \in Procs |-> NoFrame]
    /\ sent = [p \in Procs |-> <<>>]
    /\ ret = [p \in Procs |-> NoReturn]

\* The queue constructed with the default of auth_type, AuthType.bearer.name.
Constructed == ConstructedWith("bearer")

\* Every request is answered by the journal.
Init == Constructed /\ faults = FALSE

\* A call that is over: what it was, what it sent, and what it returned or
\* raised.
Finish(p, op, args, reqs, outcome) ==
    /\ sent' = [sent EXCEPT ![p] = reqs]
    /\ ret' = [ret EXCEPT ![p] = [op |-> op, args |-> args,
                                  http |-> outcome.http,
                                  raised |-> outcome.raised,
                                  status_code |-> outcome.status_code,
                                  detail |-> outcome.detail,
                                  value |-> outcome.value]]

\* ----------------------------------------------------------------- actions

JobTags_NoContextTag(context_id) == <<(<<queue.context_type>>)>>

\* The tags of a job: [self.context_type, f"{self.context_type}:{context_id}"]
\* (jobs.py 74-77)
JobTags(context_id) ==
    <<(<<queue.context_type>>), <<queue.context_type, context_id>>>>

\* BugoutJobQueue.create_job, through Bugout.create_entry, which is not given
\* the queue's auth_type and so uses its default.  The journal stamps the
\* entry with its clock, which has moved on when it stamps the next one.
create_job(p, context_id, job_title, job_content) ==
    /\ Idle(p)
    /\ Return(p)
    /\ client' = [client EXCEPT !.journal = queue.write_timeout]
    /\ LET req == Journal_create_entry(
                    queue.bugout_token, queue.journal_id, job_title, job_content,
                    JobTags(context_id),
                    None, context_id, queue.context_type, "bearer",
                    queue.write_timeout)
       IN  \E now \in clock..MaxTime :
           \E out \in Responses(journal, now, req) :
              /\ WithinBounds(out.journal)
              /\ journal' = out.journal
              /\ clock' = IF out.journal # journal THEN now + 1 ELSE clock
              /\ Finish(p, "create_job", [context_id |-> context_id], <<req>>,
                        [make_request(out) EXCEPT !.value = <<>>])
    /\ UNCHANGED <<queue, faults>>

\* The body update_cursor posts (jobs.py 91-99).  It names no context_id.
CursorBody_NoCreatedAt(created_at) ==
    LET cursor_tag == <<"cursor", queue.cursor_context_type>>
    IN  [title |-> cursor_tag,
         content |-> "",
         tags |-> <<cursor_tag>>,
         context_id |-> None,
         context_type |-> queue.cursor_context_type]

CursorBody(created_at) ==
    LET cursor_tag == <<"cursor", queue.cursor_context_type>>
    IN  [title |-> cursor_tag,
         content |-> "",
         tags |-> <<cursor_tag>>,
         context_id |-> None,
         context_type |-> queue.cursor_context_type,
         created_at |-> isoformat(created_at)]

\* BugoutJobQueue.update_cursor: its own requests.post, with the queue's
\* auth_type as the scheme.
update_cursor(p, created_at) ==
    /\ Idle(p)
    /\ Return(p)
    /\ LET req == [method |-> "post",
                   path |-> [journal_id |-> queue.journal_id, coll |-> "entries",
                             entry_id |-> NoEntry, sub |-> ""],
                   headers |-> [Authorization |->
                                  Authorization(queue.auth_type, queue.bugout_token)],
                   json |-> CursorBody(created_at),
                   timeout |-> queue.write_timeout]
       IN  \E out \in Responses(journal, clock, req) :
              /\ WithinBounds(out.journal)
              /\ journal' = out.journal
              /\ Finish(p, "update_cursor", [created_at |-> created_at], <<req>>,
                        raise_for_status(out))
    /\ UNCHANGED <<queue, client, clock, faults>>

\* The tag job_complete sends (jobs.py 192), and the tag job_failed sends
\* (jobs.py 205).
CompleteTag_Failure == queue.failure_tag

CompleteTag == queue.success_tag

FailedTag_Success == queue.success_tag

FailedTag == queue.failure_tag

\* BugoutJobQueue.job_complete and job_failed, through Bugout.update_tags:
\* what the call does to everything but the caller's frame.
UpdateTagsCall(p, op, job_id, tag) ==
    /\ client' = [client EXCEPT !.journal = queue.write_timeout]
    /\ LET req == Journal_update_tags(queue.bugout_token, queue.journal_id, job_id,
                                      <<tag>>, queue.auth_type, queue.write_timeout)
       IN  \E out \in Responses(journal, clock, req) :
              /\ journal' = out.journal
              /\ Finish(p, op, [job_id |-> job_id], <<req>>,
                        [make_request(out) EXCEPT !.value = <<>>])
    /\ UNCHANGED <<queue, clock, faults>>

MarkJob(p, op, job_id, tag) ==
    /\ Idle(p)
    /\ Return(p)
    /\ UpdateTagsCall(p, op, job_id, tag)

job_complete(p, job_id) == MarkJob(p, "job_complete", job_id, CompleteTag)

job_failed(p, job_id) == MarkJob(p, "job_failed", job_id, FailedTag)

ListArgs(job_view, use_cursor, limit, offset) ==
    [job_view |-> job_view, use_cursor |-> use_cursor, limit |-> limit,
     offset |-> offset]

\* The name `cursor` after jobs.py 158-159: bound to the first result when
\* there is one, otherwise never assigned.
CursorBound(results) == Len(results) > 0

\* list_jobs with use_cursor, up to its search for the jobs (jobs.py 148-162),
\* against journal J: the ways it can go.  Either the call is over (done), or
\* it goes on to search with the query_components it has built.
CursorStep(J, job_view) ==
    {LET got == make_request(out)
     IN  IF got.raised # None
         THEN [done |-> TRUE, journal |-> out.journal,
               outcome |-> [got EXCEPT !.value = <<>>],
               query_components |-> <<>>]
         ELSE IF ~CursorBound(got.value)
         THEN [done |-> TRUE, journal |-> out.journal,
               outcome |-> Outcome(got.http, "UnboundLocalError", NoStatus, None, <<>>),
               query_components |-> <<>>]
         ELSE [done |-> FALSE, journal |-> out.journal, outcome |-> got,
               query_components |->
                    ViewComponents(job_view)
                    \o CreatedAtTerm(CursorCreatedAt(got.value[1]))]
     : out \in Responses(J, clock, CursorSearch)}

\* The rest of list_jobs (jobs.py 164-182) against journal J: the search for
\* the jobs and the list made of its results.
SearchStep(J, query_components, limit, offset) ==
    {LET got == make_request(out)
     IN  [journal |-> out.journal,
          outcome |-> IF got.raised # None THEN got
                      ELSE [got EXCEPT !.value = WithEntryID(got.value)]]
     : out \in Responses(J, clock, JobSearch(query_components, limit, offset))}

\* BugoutJobQueue.list_jobs: both of its steps, no other caller running
\* between them; what the call does to everything but the caller's frame.
ListJobsCall(p, job_view, use_cursor, limit, offset) ==
    /\ client' = [client EXCEPT !.journal = REQUESTS_TIMEOUT]
    /\ LET args == ListArgs(job_view, use_cursor, limit, offset)
       IN  IF use_cursor
           THEN \E c \in CursorStep(journal, job_view) :
                  IF c.done
                  THEN /\ journal' = c.journal
                       /\ Finish(p, "list_jobs", args, <<CursorSearch>>, c.outcome)
                  ELSE \E s \in SearchStep(c.journal, c.query_components,
                                           limit, offset) :
                          /\ journal' = s.journal
                          /\ Finish(p, "list_jobs", args,
                                    <<CursorSearch,
                                      JobSearch(c.query_components, limit, offset)>>,
                                    s.outcome)
           ELSE \E s \in SearchStep(journal, ViewComponents(job_view),
                                    limit, offset) :
                  /\ journal' = s.journal
                  /\ Finish(p, "list_jobs", args,
                            <<JobSearch(ViewComponents(job_view), limit, offset)>>,
                            s.outcome)
    /\ UNCHANGED <<queue, clock, faults>>

list_jobs(p, job_view, use_cursor, limit, offset) ==
    /\ Idle(p)
    /\ Return(p)
    /\ ListJobsCall(p, job_view, use_cursor, limit, offset)

\* The context ids a caller may enqueue: one it used before, or the first it
\* has not used yet (context ids are opaque, so the order of first use is fixed).
UsedContextIds == {Entry(journal, id).context_id : id \in Jobs(journal)}

NextContextIds ==
    {ContextIdNames[i] : i \in {k \in 1..MaxJobs :
        \/ ContextIdNames[k] \in UsedContextIds
        \/ \A d \in 1..(k - 1) : ContextIdNames[d] \in UsedContextIds}}

\* The ids a caller may pass to job_complete and job_failed: those of the
\* jobs, which a listing gave it, and one that names no entry.
JobIds == Jobs(journal) \cup {<<queue.context_type, Len(journal[queue.context_type]) + 1>>}

\* One caller using the queue, one call after the other.
Caller == "c1"

Next ==
    \/ \E id \in NextContextIds : create_job(Caller, id, "T", "C")
    \/ \E t \in Times : update_cursor(Caller, t)
    \/ \E id \in JobIds : job_complete(Caller, id)
    \/ \E id \in JobIds : job_failed(Caller, id)
    \/ \E v \in JobView, c \in BOOLEAN, l \in Limits, o \in Offsets :
          list_jobs(Caller, v, c, l, o)

Spec == Init /\ [][Next]_vars

\* ------------------------------------------------- requests that can fail

InitFaults == Constructed /\ faults = TRUE

\* The journal this specification lets the caller build.
FaultJobs == 2
FaultCursors == 1

SmallJournal(J) ==
    /\ Cardinality(Jobs(J)) <= FaultJobs
    /\ Cardinality(Cursors(J)) <= FaultCursors

\* One caller, one call after the other, any of its requests failing.
NextFaults ==
    \/ \E id \in NextContextIds :
          create_job(Caller, id, "T", "C") /\ SmallJournal(journal')
    \/ \E t \in Times : update_cursor(Caller, t) /\ SmallJournal(journal')
    \/ \E id \in JobIds : job_complete(Caller, id)
    \/ \E id \in JobIds : job_failed(Caller, id)
    \/ \E v \in JobView, c \in BOOLEAN : list_jobs(Caller, v, c, DefaultLimit, 0)

SpecFaults == InitFaults /\ [][NextFaults]_vars

\* ------------------------------------------------ queues of either auth_type
\* The queue constructed with auth_type "bearer" or "web3", and one caller
\* using it.

InitAuth == \E a \in AuthTypeNames : ConstructedWith(a) /\ faults = FALSE

SpecAuth == InitAuth /\ [][NextFaults]_vars

\* ------------------------------------------- consumers sharing one queue
\* Two processes, each with a BugoutJobQueue of the same configuration over
\* the same journal.  A list_jobs call with use_cursor is two requests, and
\* the other process may run between them.

\* list_jobs with use_cursor, up to the answer to its cursor search
\* (jobs.py 148-162).
list_jobs_cursor(p, job_view, limit, offset) ==
    /\ Idle(p)
    /\ client' = [client EXCEPT !.journal = REQUESTS_TIMEOUT]
    /\ LET args == ListArgs(job_view, TRUE, limit, offset)
       IN  \E c \in CursorStep(journal, job_view) :
              /\ journal' = c.journal
              /\ IF c.done
                 THEN /\ Finish(p, "list_jobs", args, <<CursorSearch>>, c.outcome)
                      /\ Return(p)
                 ELSE /\ sent' = [sent EXCEPT ![p] = <<CursorSearch>>]
                      /\ ret' = [ret EXCEPT ![p] = NoReturn]
                      /\ frame' = [frame EXCEPT ![p] =
                            [pc |-> "search", raced |-> FALSE, args |-> args,
                             query_components |-> c.query_components,
                             cursors |-> Len(c.journal[queue.cursor_context_type])]]
    /\ UNCHANGED <<queue, clock, faults>>

\* The rest of that list_jobs call (jobs.py 164-182).
list_jobs_search_Fresh(p) ==
    /\ frame[p].pc = "search"
    /\ client' = [client EXCEPT !.journal = REQUESTS_TIMEOUT]
    /\ LET f == frame[p]
       IN  \E c \in CursorStep(journal, f.args.job_view) :
           \E s \in SearchStep(journal, c.query_components, f.args.limit,
                                f.args.offset) :
              /\ ~c.done
              /\ journal' = s.journal
              /\ Finish(p, "list_jobs", f.args,
                        Append(sent[p], JobSearch(c.query_components, f.args.limit,
                                                  f.args.offset)),
                        s.outcome)
              /\ frame' = [frame EXCEPT ![p] =
                    [pc |-> "idle",
                     raced |-> Len(journal[queue.cursor_context_type]) # f.cursors]]
    /\ UNCHANGED <<queue, clock, faults>>

list_jobs_search(p) ==
    /\ frame[p].pc = "search"
    /\ client' = [client EXCEPT !.journal = REQUESTS_TIMEOUT]
    /\ LET f == frame[p]
           req == JobSearch(f.query_components, f.args.limit, f.args.offset)
       IN  \E s \in SearchStep(journal, f.query_components, f.args.limit,
                                f.args.offset) :
              /\ journal' = s.journal
              /\ Finish(p, "list_jobs", f.args, Append(sent[p], req), s.outcome)
              /\ frame' = [frame EXCEPT ![p] =
                    [pc |-> "idle",
                     raced |-> Len(journal[queue.cursor_context_type]) # f.cursors]]
    /\ UNCHANGED <<queue, clock, faults>>

\* The jobs p's last call, a listing, returned to it.
ReturnedTo(p) ==
    IF ret[p].op = "list_jobs" /\ ret[p].raised = None
    THEN {ret[p].value[k].id : k \in 1..Len(ret[p].value)}
    ELSE {}

\* The journal this specification lets the processes build.
RaceJobs == 2
RaceCursors == 2

RaceJournal(J) ==
    /\ Cardinality(Jobs(J)) <= RaceJobs
    /\ Cardinality(Cursors(J)) <= RaceCursors

\* Jobs are enqueued; each consumer lists the REMAINING jobs since the cursor,
\* marks jobs its listing returned, and advances the cursor.
NextRace ==
    \/ \E id \in NextContextIds :
          create_job(Caller, id, "T", "C") /\ RaceJournal(journal')
    \/ \E p \in Procs, t \in Times : update_cursor(p, t) /\ RaceJournal(journal')
    \/ \E p \in Procs : \E id \in ReturnedTo(p) : job_complete(p, id)
    \/ \E p \in Procs : \E id \in ReturnedTo(p) : job_failed(p, id)
    \/ \E p \in Procs : list_jobs_cursor(p, REMAINING, DefaultLimit, 0)
    \/ \E p \in Procs : list_jobs_search(p)

SpecRace == Init /\ [][NextRace]_vars

\* ------------------------------------- the facade's user and group calls
\* Bugout's methods for users and groups (app.py) and the User and Group
\* sub-clients they call (user.py, group.py).  Each method of the facade stores
\* its timeout argument in a sub-client's timeout field; the sub-client's
\* _call sends the request with its own timeout field.

\* The timeouts and group ids callers pass.
MaxTimeout == 3
Timeouts == 1..MaxTimeout \cup {REQUESTS_TIMEOUT}
GroupIds == {"g1", "g2"}

\* The users and groups server: it answers every request of this model.
BroodServe(J, req) ==
    {[status |-> StatusOK, journal |-> J, json |-> <<req.path>>]}

BroodResponses(J, req) == {Answer(o) : o \in BroodServe(J, req)}

\* User._call and Group._call: make_request(..., timeout=self.timeout, ...)
User__call(self, method, path, params, token) ==
    [method |-> method, path |-> path, params |-> params,
     headers |-> [Authorization |-> Authorization("Bearer", token)],
     timeout |-> self.user]

Group__call(self, method, path, params, token) ==
    [method |-> method, path |-> path, params |-> params,
     headers |-> [Authorization |-> Authorization("Bearer", token)],
     timeout |-> self.group]

\* User.get_token_types, Group.get_group, Group.find_group,
\* Group.get_user_groups, Group.create_group
User_get_token_types(self, token) ==
    User__call(self, "get", <<"token", "types">>, <<>>, token)

Group_get_group(self, token, group_id) ==
    Group__call(self, "get", <<"group", group_id>>, <<>>, token)

Group_find_group(self, token, group_id) ==
    Group__call(self, "get", <<"groups", "find">>, <<group_id>>, token)

Group_get_user_groups(self, token) ==
    Group__call(self, "get", <<"groups">>, <<>>, token)

Group_create_group(self, token, group_name) ==
    Group__call(self, "post", <<"group">>, <<group_name>>, token)

\* A call of the facade that is one request of a sub-client.
FacadeCall(p, op, args, req) ==
    /\ Idle(p)
    /\ Return(p)
    /\ \E out \in BroodResponses(journal, req) :
          Finish(p, op, args, <<req>>, [make_request(out) EXCEPT !.value = <<>>])
    /\ UNCHANGED <<queue, journal, clock, faults>>

\* Bugout.get_token_types (app.py 204-208)
get_token_types(p, timeout) ==
    /\ client' = [client EXCEPT !.user = timeout]
    /\ FacadeCall(p, "get_token_types", [timeout |-> timeout],
                  User_get_token_types(client', queue.bugout_token))

\* Bugout.get_group (app.py 227-234)
get_group(p, group_id, timeout) ==
    /\ client' = [client EXCEPT !.group = timeout]
    /\ FacadeCall(p, "get_group", [group_id |-> group_id, timeout |-> timeout],
                  Group_get_group(client', queue.bugout_token, group_id))

\* Bugout.find_group (app.py 236-243): the timeout goes to self.user, the
\* call to self.group.
find_group(p, group_id, timeout) ==
    /\ client' = [client EXCEPT !.user = timeout]
    /\ FacadeCall(p, "find_group", [group_id |-> group_id, timeout |-> timeout],
                  Group_find_group(client', queue.bugout_token, group_id))

\* Bugout.get_user_groups (app.py 245-249)
get_user_groups(p, timeout) ==
    /\ client' = [client EXCEPT !.group = timeout]
    /\ FacadeCall(p, "get_user_groups", [timeout |-> timeout],
                  Group_get_user_groups(client', queue.bugout_token))

\* Bugout.create_group (app.py 251-258)
create_group(p, group_name, timeout) ==
    /\ client' = [client EXCEPT !.group = timeout]
    /\ FacadeCall(p, "create_group", [group_name |-> group_name, timeout |-> timeout],
                  Group_create_group(client', queue.bugout_token, group_name))

\* What a method of a sub-client does before it returns: the exception it
\* raises itself, if any, and the requests it hands to _call.
Raises(exc) == [raised |-> exc, reqs |-> <<>>]

Calls(req) == [raised |-> None, reqs |-> <<req>>]

\* data.TokenType and data.Role, by value; what callers pass for the optional
\* parameters: nothing, or a value.
TokenTypes == {"bugout", "slack", "github"}
Roles == {"owner", "member"}
OptionalTokenTypes == {None, "bugout"}
OptionalNotes == {None, "note"}
OptionalUsernames == {None, "alice"}
OptionalEmails == {None, "alice@example.com"}

User_update_token_NoCheck(self, token, token_type, token_note) ==
    Calls([method |-> "put", path |-> <<"token">>,
           params |-> [access_token |-> token, token_type |-> token_type,
                       token_note |-> token_note],
           headers |-> <<>>, timeout |-> self.user])

\* User.update_token (user.py 202-221): the check of the parameters, then the
\* request, which carries the token in its body and no Authorization header.
User_update_token(self, token, token_type, token_note) ==
    IF token_type = None /\ token_note = None
    THEN Raises("TokenInvalidParameters")
    ELSE Calls([method |-> "put", path |-> <<"token">>,
                params |-> [access_token |-> token, token_type |-> token_type,
                            token_note |-> token_note],
                headers |-> <<>>, timeout |-> self.user])

\* Group.set_user_group (group.py 90-118)
Group_set_user_group(self, token, group_id, user_type, username, email) ==
    IF username = None /\ email = None
    THEN Raises("GroupInvalidParameters")
    ELSE Calls(Group__call(self, "post", <<"group", group_id, "role">>,
                           [user_type |-> user_type, username |-> username,
                            email |-> email],
                           token))

\* Group.delete_user_group (group.py 120-151)
Group_delete_user_group(self, token, group_id, username, email) ==
    IF username = None /\ email = None
    THEN Raises("GroupInvalidParameters")
    ELSE Calls(Group__call(self, "delete", <<"group", group_id, "role">>,
                           [username |-> username, email |-> email],
                           token))

\* A call of the facade to a method that checks its parameters first: over
\* when the method raises, one request otherwise.
FacadeCheckedCall(p, op, args, did) ==
    IF did.raised # None
    THEN /\ Idle(p)
         /\ Return(p)
         /\ Finish(p, op, args, did.reqs,
                   Outcome(NoStatus, did.raised, NoStatus, None, <<>>))
         /\ UNCHANGED <<queue, journal, clock, faults>>
    ELSE FacadeCall(p, op, args, did.reqs[1])

\* Bugout.update_token (app.py 190-202)
update_token(p, token_type, token_note, timeout) ==
    /\ client' = [client EXCEPT !.user = timeout]
    /\ FacadeCheckedCall(p, "update_token",
                         [token_type |-> token_type, token_note |-> token_note,
                          timeout |-> timeout],
                         User_update_token(client', queue.bugout_token,
                                           token_type, token_note))

\* Bugout.set_user_group (app.py 260-276)
set_user_group(p, group_id, user_type, username, email, timeout) ==
    /\ client' = [client EXCEPT !.group = timeout]
    /\ FacadeCheckedCall(p, "set_user_group",
                         [group_id |-> group_id, user_type |-> user_type,
                          username |-> username, email |-> email,
                          timeout |-> timeout],
                         Group_set_user_group(client', queue.bugout_token, group_id,
                                              user_type, username, email))

\* Bugout.delete_user_group (app.py 278-289)
delete_user_group(p, group_id, username, email, timeout) ==
    /\ client' = [client EXCEPT !.group = timeout]
    /\ FacadeCheckedCall(p, "delete_user_group",
                         [group_id |-> group_id, username |-> username,
                          email |-> email, timeout |-> timeout],
                         Group_delete_user_group(client', queue.bugout_token,
                                                 group_id, username, email))

\* One caller using the facade, one call after the other.
NextFacade ==
    \/ \E t \in Timeouts : get_token_types(Caller, t)
    \/ \E g \in GroupIds, t \in Timeouts : get_group(Caller, g, t)
    \/ \E g \in GroupIds, t \in Timeouts : find_group(Caller, g, t)
    \/ \E t \in Timeouts : get_user_groups(Caller, t)
    \/ \E g \in GroupIds, t \in Timeouts : create_group(Caller, g, t)
    \/ \E tt \in OptionalTokenTypes, n \in OptionalNotes, t \in Timeouts :
          update_token(Caller, tt, n, t)
    \/ \E g \in GroupIds, r \in Roles, u \in OptionalUsernames,
          e \in OptionalEmails, t \in Timeouts :
          set_user_group(Caller, g, r, u, e, t)
    \/ \E g \in GroupIds, u \in OptionalUsernames, e \in OptionalEmails,
          t \in Timeouts :
          delete_user_group(Caller, g, u, e, t)

SpecFacade == Init /\ [][NextFacade]_vars

\* ------------------------------------------------- a consumer of the queue
\* A consumer working through the REMAINING jobs: it lists a page without the
\* cursor, marks every job of the page complete or failed, and lists the next
\* page, until a page comes back empty.  With stride 0 every page is listed
\* from offset 0; with stride = limit the pages are listed from the successive
\* offsets 0, limit, 2*limit, ...  Its frame holds where it is: the jobs of the
\* page it has yet to mark (todo) and the offset of the next page; and, as
\* history, the jobs that were REMAINING when it began (start), those its
\* pages have returned (seen) and those returned more than once (again).

Consuming(p) == frame[p].pc = "consume"

\* The consumer begins; from here on it enqueues nothing.
consume(p, limit, stride) ==
    /\ Idle(p)
    /\ frame' = [frame EXCEPT ![p] =
                    [pc |-> "consume", raced |-> FALSE, limit |-> limit,
                     stride |-> stride, offset |-> 0, todo |-> {}, done |-> FALSE,
                     start |-> {id \in Jobs(journal) :
                                  /\ queue.success_tag \notin Entry(journal, id).tags
                                  /\ queue.failure_tag \notin Entry(journal, id).tags},
                     seen |-> {}, again |-> {}]]
    /\ UNCHANGED <<queue, client, journal, clock, faults, sent, ret>>

\* It lists the next page.
consume_list(p) ==
    /\ Consuming(p)
    /\ frame[p].todo = {}
    /\ ~frame[p].done
    /\ ListJobsCall(p, REMAINING, FALSE, frame[p].limit, frame[p].offset)
    /\ LET page == {ret'[p].value[k].id : k \in 1..Len(ret'[p].value)}
       IN  frame' = [frame EXCEPT ![p].todo = page,
                                  ![p].done = page = {},
                                  ![p].offset = @ + frame[p].stride,
                                  ![p].seen = @ \cup page,
                                  ![p].again = @ \cup (frame[p].seen \cap page)]

\* It marks a job of the page, complete or failed.
consume_mark(p) ==
    /\ Consuming(p)
    /\ \E id \in frame[p].todo :
          /\ \/ UpdateTagsCall(p, "job_complete", id, CompleteTag)
             \/ UpdateTagsCall(p, "job_failed", id, FailedTag)
          /\ frame' = [frame EXCEPT ![p].todo = @ \ {id}]

\* Jobs are enqueued; then the consumer drains the queue, listing from offset 0.
Drain ==
    \/ \E l \in Limits : consume(Caller, l, 0)
    \/ consume_list(Caller)
    \/ consume_mark(Caller)

NextDrain ==
    \/ \E id \in NextContextIds : create_job(Caller, id, "T", "C")
    \/ Drain

\* The consumer keeps running: a step of its loop that can be taken is taken.
SpecDrain == Init /\ [][NextDrain]_vars /\ WF_vars(Drain)

\* Jobs are enqueued; then the consumer pages through the queue with
\* successive offsets.
NextPaging ==
    \/ \E id \in NextContextIds : create_job(Caller, id, "T", "C")
    \/ \E l \in Limits : consume(Caller, l, l)
    \/ consume_list(Caller)
    \/ consume_mark(Caller)

SpecPaging == Init /\ [][NextPaging]_vars

\* ------------------------------------------ threads sharing one facade
\* Bugout.search and Bugout.update_tags called by two threads on one Bugout
\* object.  Each method first stores its timeout argument in the timeout field
\* of the one Journal sub-client (app.py 765, 810); Journal._call reads that
\* field when it sends the request (journal.py 60-63).  Another thread may run
\* between the two.

\* The thread has stored its timeout and built the arguments of its request.
Entered(p, op, args) ==
    /\ Idle(p)
    /\ client' = [client EXCEPT !.journal = args.timeout]
    /\ frame' = [frame EXCEPT ![p] = [pc |-> "call", raced |-> FALSE, op |-> op,
                                      args |-> args]]
    /\ UNCHANGED <<queue, journal, clock, faults, sent, ret>>

\* Bugout.search up to its call of self.journal.search (app.py 796-810)
Bugout_search(p, query, limit, offset, timeout) ==
    Entered(p, "search", [query |-> query, limit |-> limit, offset |-> offset,
                          timeout |-> timeout])

\* Bugout.update_tags up to its call of self.journal.update_tags
\* (app.py 755-765)
Bugout_update_tags(p, entry_id, tags, timeout) ==
    Entered(p, "update_tags", [entry_id |-> entry_id, tags |-> tags,
                               timeout |-> timeout])

\* The rest of the call: Journal.search or Journal.update_tags, whose _call
\* sends the request with the timeout field as it is now.
Journal__call(p) ==
    /\ frame[p].pc = "call"
    /\ Return(p)
    /\ LET a == frame[p].args
           req == IF frame[p].op = "search"
                  THEN Journal_search(queue.bugout_token, queue.journal_id, a.query,
                                      a.limit, a.offset, TRUE, DESCENDING, "bearer",
                                      client.journal)
                  ELSE Journal_update_tags(queue.bugout_token, queue.journal_id,
                                           a.entry_id, a.tags, "bearer",
                                           client.journal)
       IN  \E out \in Responses(journal, clock, req) :
              /\ journal' = out.journal
              /\ Finish(p, frame[p].op, a, <<req>>,
                        [make_request(out) EXCEPT !.value = <<>>])
    /\ UNCHANGED <<queue, client, clock, faults>>

\* The timeouts the threads pass: a short one and the default.
ThreadTimeouts == {1, REQUESTS_TIMEOUT}

\* Two threads, each making one call after the other.
NextThreads ==
    \/ \E p \in Procs, t \in ThreadTimeouts :
          Bugout_search(p, ViewComponents(REMAINING), DefaultLimit, 0, t)
    \/ \E p \in Procs, id \in JobIds, t \in ThreadTimeouts :
          Bugout_update_tags(p, id, <<queue.success_tag>>, t)
    \/ \E p \in Procs : Journal__call(p)

SpecThreads == Init /\ [][NextThreads]_vars

\* ------------------------------------------------------------------ claims

\* What the caller's last call returned.
R == ret[Caller]

ListReturned == R.op = "list_jobs" /\ R.raised = None

ReturnedIds == {R.value[k].id : k \in 1..Len(R.value)}

CreatedAt(id) == Entry(journal, id).created_at

HasTag(id, tag) == tag \in Entry(journal, id).tags

\* The views as the tags define them.
TagView(view) ==
    CASE view = REMAINING ->
            {id \in Jobs(journal) :
                ~HasTag(id, queue.success_tag) /\ ~HasTag(id, queue.failure_tag)}
      [] view = SUCCESS -> {id \in Jobs(journal) : HasTag(id, queue.success_tag)}
      [] view = FAILURE -> {id \in Jobs(journal) : HasTag(id, queue.failure_tag)}

\* The greatest created_at among the cursor entries.
LatestCursorTime ==
    CHOOSE t \in {CreatedAt(c) : c \in Cursors(journal)} :
        \A c \in Cursors(journal) : CreatedAt(c) <= t

SufficientWindow == R.args.offset = 0 /\ R.args.limit >= Cardinality(Jobs(journal))

\* C1: a list_jobs call with use_cursor that returns, returns only jobs of its
\* view created strictly after the most recent cursor entry (the cursor entry
\* of greatest created_at), and with offset 0 and a sufficient limit returns
\* every job of the view created strictly after it.
C1_CursorScopedListing ==
    (ListReturned /\ R.args.use_cursor) =>
        /\ Cursors(journal) # {}
        /\ \A id \in ReturnedIds :
              /\ id \in TagView(R.args.job_view)
              /\ CreatedAt(id) > LatestCursorTime
        /\ SufficientWindow =>
              \A id \in TagView(R.args.job_view) :
                  CreatedAt(id) > LatestCursorTime => id \in ReturnedIds

\* After update_cursor(t), t still the most recent cursor: a listing that left
\* out a job of its view created at t and returned one created at t + 1, with
\* an older cursor entry written after the most recent one.
C1_Witness ==
    /\ ListReturned /\ R.args.use_cursor /\ SufficientWindow
    /\ Cardinality(Cursors(journal)) = 2
    /\ CreatedAt(<<queue.cursor_context_type, 2>>) < CreatedAt(<<queue.cursor_context_type, 1>>)
    /\ \E id \in TagView(R.args.job_view) :
          CreatedAt(id) = LatestCursorTime /\ id \notin ReturnedIds
    /\ \E id \in ReturnedIds : CreatedAt(id) = LatestCursorTime + 1

\* C2: with use_cursor and no cursor entry in the journal, list_jobs returns
\* without error exactly what the same call without use_cursor returns.
C2_NoCursorNoLowerBound ==
    (R.op = "list_jobs" /\ R.args.use_cursor /\ Cursors(journal) = {}) =>
        /\ R.raised = None
        /\ R.value \in {s.outcome.value :
                          s \in SearchStep(journal, ViewComponents(R.args.job_view),
                                           R.args.limit, R.args.offset)}

\* The jobs list_jobs lists for a view, without cursor, from offset 0 with
\* its default limit.
ListedIds(view) ==
    UNION {{s.outcome.value[k].id : k \in 1..Len(s.outcome.value)} :
            s \in SearchStep(journal, ViewComponents(view), DefaultLimit, 0)}

\* C3: in every state REMAINING lists exactly the jobs with neither the success
\* nor the failure tag, SUCCESS those with the success tag, FAILURE those with
\* the failure tag; every job is in some view, REMAINING is disjoint from the
\* other two, and a job tagged success and not failure is listed in SUCCESS only.
C3_ViewsFollowTags ==
    /\ \A view \in JobView : ListedIds(view) = TagView(view)
    /\ ListedIds(REMAINING) \cup ListedIds(SUCCESS) \cup ListedIds(FAILURE)
            = Jobs(journal)
    /\ ListedIds(REMAINING) \cap ListedIds(SUCCESS) = {}
    /\ ListedIds(REMAINING) \cap ListedIds(FAILURE) = {}
    /\ \A id \in Jobs(journal) :
          (HasTag(id, queue.success_tag) /\ ~HasTag(id, queue.failure_tag)) =>
              /\ id \in ListedIds(SUCCESS)
              /\ id \notin ListedIds(REMAINING) \cup ListedIds(FAILURE)

\* A journal with an unmarked job, a job marked success only and a job marked
\* both, and a SUCCESS listing that returned the two marked success.
C3_Witness ==
    /\ ListReturned /\ ~R.args.use_cursor /\ R.args.job_view = SUCCESS
    /\ Cardinality(ReturnedIds) = 2
    /\ TagView(REMAINING) # {}
    /\ TagView(SUCCESS) \ TagView(FAILURE) # {}
    /\ TagView(SUCCESS) \cap TagView(FAILURE) # {}

\* The jobs of `ids`, oldest first.
OldestFirst(ids) ==
    CHOOSE s \in [1..Cardinality(ids) -> ids] :
        \A i, j \in DOMAIN s : i < j => CreatedAt(s[i]) < CreatedAt(s[j])

\* C4: a list_jobs call that returns has asked for ascending order and returns
\* its jobs in the order they were created; without cursor, from offset 0 and
\* with a sufficient limit, it returns all jobs of the view, oldest first.
C4_ListingIsFIFO ==
    ListReturned =>
        /\ Last(sent[Caller]).params.order = ASCENDING
        /\ \A i, j \in 1..Len(R.value) :
              i < j => CreatedAt(R.value[i].id) < CreatedAt(R.value[j].id)
        /\ (~R.args.use_cursor /\ SufficientWindow) =>
              [k \in 1..Len(R.value) |-> R.value[k].id]
                  = OldestFirst(TagView(R.args.job_view))

\* A listing that returned three jobs.
C4_Witness ==
    /\ ListReturned
    /\ Len(R.value) = 3
    /\ CreatedAt(R.value[1].id) < CreatedAt(R.value[2].id)
    /\ CreatedAt(R.value[2].id) < CreatedAt(R.value[3].id)

\* The call a step makes: every call leaves its name in ret.
Called(op) == ret'[Caller].op = op /\ vars' # vars

\* C5: a job_complete(id) that returns leaves job id out of the REMAINING
\* listing and in the SUCCESS listing, and it stays so; job_complete on a job
\* already marked success changes neither the journal nor any view.
C5_CompleteMovesToSuccess ==
    [][\A id \in Jobs(journal) :
          /\ (Called("job_complete") /\ ret'[Caller].args.job_id = id
                  /\ ret'[Caller].raised = None) =>
                /\ id \notin ListedIds(REMAINING)'
                /\ id \in ListedIds(SUCCESS)'
                /\ HasTag(id, queue.success_tag) =>
                      /\ journal' = journal
                      /\ \A view \in JobView : ListedIds(view)' = ListedIds(view)
          /\ \/ journal' = journal
             \/ (id \notin ListedIds(REMAINING) /\ id \in ListedIds(SUCCESS)) =>
                    (id \notin ListedIds(REMAINING)' /\ id \in ListedIds(SUCCESS)')
      ]_vars

\* job_complete has returned for a job that is now listed in SUCCESS and not
\* in REMAINING.
C5_Witness ==
    /\ R.op = "job_complete" /\ R.raised = None
    /\ R.args.job_id \in ListedIds(SUCCESS) \ ListedIds(REMAINING)
    /\ Cardinality(Jobs(journal)) >= 2

\* C6: no step of the queue removes a tag from a job: every job stays, with
\* at least the tags it had, and a job not listed in REMAINING is not listed
\* there after the step.
C6_TagsOnlyGrow ==
    [][\A id \in Jobs(journal) :
          \/ journal' = journal
          \/ /\ id \in Jobs(journal')
             /\ Entry(journal, id).tags \subseteq (Entry(journal, id).tags)'
             /\ id \notin ListedIds(REMAINING) => id \notin ListedIds(REMAINING)'
      ]_vars

\* A job marked success, then marked failed: both tags are on it.
C6_Witness ==
    /\ R.op \in {"job_complete", "job_failed"} /\ R.raised = None
    /\ HasTag(R.args.job_id, queue.success_tag)
    /\ HasTag(R.args.job_id, queue.failure_tag)
    /\ R.args.job_id \notin ListedIds(REMAINING)

\* C7: job_failed on a job marked success, and job_complete on a job marked
\* failed, return without error and leave both tags on the job, which is then
\* listed in SUCCESS and in FAILURE and not in REMAINING.
C7_MarkingChecksNothing ==
    [][\A id \in Jobs(journal) :
          (/\ \/ Called("job_failed") /\ HasTag(id, queue.success_tag)
              \/ Called("job_complete") /\ HasTag(id, queue.failure_tag)
           /\ ret'[Caller].args.job_id = id) =>
            /\ ret'[Caller].raised = None
            /\ {queue.success_tag, queue.failure_tag} \subseteq (Entry(journal, id).tags)'
            /\ id \notin ListedIds(REMAINING)'
            /\ id \in ListedIds(SUCCESS)'
            /\ id \in ListedIds(FAILURE)'
      ]_vars

\* job_failed has returned for a job that carries the success tag: the job is
\* in both views.
C7_Witness ==
    /\ R.op = "job_failed" /\ R.raised = None
    /\ HasTag(R.args.job_id, queue.success_tag)
    /\ R.args.job_id \in ListedIds(SUCCESS) \cap ListedIds(FAILURE)
    /\ R.args.job_id \notin ListedIds(REMAINING)

JobsOfContext(context_id) ==
    {id \in Jobs(journal) :
        \/ Entry(journal, id).context_id = context_id
        \/ HasTag(id, <<queue.context_type, context_id>>)}

C9_CursorIsPureAppend ==
    [][LET cct == queue.cursor_context_type
           n == Len(journal[cct])
       IN  /\ (Called("update_cursor") /\ ret'[Caller].raised = None) =>
                 /\ Len(journal'[cct]) = n + 1
                 /\ journal'[cct][n + 1].context_type = cct
                 /\ journal'[cct][n + 1].created_at = ret'[Caller].args.created_at
                 /\ \A ct \in DOMAIN journal \ {cct} : journal'[ct] = journal[ct]
           /\ Len(journal'[cct]) >= n
           /\ SubSeq(journal'[cct], 1, n) = journal[cct]
      ]_vars

\* update_cursor has returned, its entry is the newest of two cursor entries,
\* beside jobs, some of them marked.
C9_Witness ==
    /\ R.op = "update_cursor" /\ R.raised = None
    /\ Len(journal[queue.cursor_context_type]) = 2
    /\ Last(journal[queue.cursor_context_type]).created_at = R.args.created_at
    /\ journal[queue.cursor_context_type][1].created_at # R.args.created_at
    /\ Jobs(journal) \ ListedIds(REMAINING) # {}

\* C10: a list_jobs call leaves the journal as it was, its cursor entries
\* included, and sends nothing but GETs to the search endpoint.
C10_ListingIsReadOnly ==
    [][Called("list_jobs") =>
          /\ journal' = journal
          /\ Len(sent'[Caller]) \in {1, 2}
          /\ \A k \in 1..Len(sent'[Caller]) :
                /\ sent'[Caller][k].method = "get"
                /\ sent'[Caller][k].path.coll = "search"
      ]_vars

\* A listing with use_cursor that made both searches and returned jobs.
C10_Witness ==
    /\ ListReturned /\ R.args.use_cursor
    /\ Len(sent[Caller]) = 2
    /\ Len(R.value) >= 1
    /\ Cursors(journal) # {}

\* The created_at terms of a query, and the bound the query applies.
BoundTerms(q) == {k \in 1..Len(q) : q[k].key = "created_at:>"}

AppliedBound(q) == q[CHOOSE k \in BoundTerms(q) : TRUE].val

Max2(a, b) == IF a > b THEN a ELSE b

Rejected == R.op # None /\ R.http # NoStatus /\ R.http \notin 200..299

\* The operations that send their requests through make_request.
ThroughMakeRequest == R.op \in {"create_job", "list_jobs", "job_complete", "job_failed"}

\* C12: whatever the queue operation, a call whose request received a non-2xx
\* response raises BugoutResponseException carrying that response's status
\* and the detail the server sent (the `detail` of a JSON body, else the text).
C12_RejectionsRaiseResponseError ==
    Rejected =>
        /\ R.raised = "BugoutResponseException"
        /\ R.status_code = R.http
        /\ R.detail \in {"detail", "text"}

\* C13: a call through make_request whose request received no response
\* raises BugoutResponseException with status_code 599 and detail str(err),
\* and only such a call raises it with status_code 599: no call that received
\* a response does.
C13_NetworkFailureIsTold ==
    ThroughMakeRequest =>
        /\ (R.http = NoStatus /\ R.raised # "BugoutUnexpectedResponse") =>
              /\ R.raised = "BugoutResponseException"
              /\ R.status_code = NETWORK_ERROR_STATUS
              /\ R.detail = "err"
        /\ (R.raised = "BugoutResponseException"
                /\ R.status_code = NETWORK_ERROR_STATUS) =>
              R.http = NoStatus

\* C14: a call through make_request raises nothing out of make_request but
\* BugoutResponseException and BugoutUnexpectedResponse; in particular, when
\* the response was 2xx and its body did not decode, BugoutUnexpectedResponse.
\* (UnboundLocalError is raised by list_jobs itself, after make_request
\* returned.)
C14_LocalFailuresAreUnexpectedResponse ==
    ThroughMakeRequest =>
        R.raised \in {None, "BugoutResponseException", "BugoutUnexpectedResponse",
                      "UnboundLocalError"}

\* The entries of J2 that J1 does not hold as they are.
Mutations(J1, J2) == {id \in Ids(J2) : id \notin Ids(J1) \/ Entry(J1, id) # Entry(J2, id)}

\* The last request of the caller's call failed: no response, or a response
\* make_request or raise_for_status raised for.
RequestFailed(r) ==
    r.raised \in {"BugoutResponseException", "BugoutUnexpectedResponse",
                  "JSONDecodeError", "HTTPError", "RequestException", "Exception"}

\* C15: create_job, job_complete, job_failed and update_cursor send one
\* request per call; list_jobs sends one without use_cursor, and with
\* use_cursor the cursor search and, whenever that succeeded, the job search
\* too; a failed request is the last of its call; and a call changes at most
\* one entry of the journal and removes none.
C15_NoRetries ==
    [][\A op \in {"create_job", "job_complete", "job_failed", "update_cursor",
                  "list_jobs"} :
          Called(op) =>
            LET r == ret'[Caller]
                n == Len(sent'[Caller])
            IN  /\ op # "list_jobs" => n = 1
                /\ (op = "list_jobs" /\ ~r.args.use_cursor) => n = 1
                /\ (op = "list_jobs" /\ r.args.use_cursor) =>
                      /\ n \in {1, 2}
                      /\ sent'[Caller][1] = CursorSearch
                      /\ n = 1 => RequestFailed(r)
                /\ Cardinality(Mutations(journal, journal')) <= 1
                /\ Ids(journal) \subseteq Ids(journal')
      ]_vars

\* The literals of AuthType.
AuthTypeValues == {AuthType(name) : name \in AuthTypeNames}

\* C16: every request a queue operation has sent carries an Authorization
\* header "<scheme> <token>" whose scheme is "Bearer" or "Web3" and whose
\* token is the queue's.
C16_SchemeIsAuthTypeValue ==
    \A p \in Procs : \A k \in 1..Len(sent[p]) :
        /\ sent[p][k].headers.Authorization[1] \in AuthTypeValues
        /\ sent[p][k].headers.Authorization[2] = queue.bugout_token

\* The calls of the facade that take a timeout argument.
FacadeOps == {"get_token_types", "get_group", "find_group", "get_user_groups", "create_group"}

\* C17: the request a call of the facade sends has the timeout passed to that
\* call, whatever timeouts earlier calls were given.
C17_TimeoutIsPerCall ==
    R.op \in FacadeOps =>
        \A k \in 1..Len(sent[Caller]) : sent[Caller][k].timeout = R.args.timeout

\* The journal of the scenario: the one job create_job("42", "T", "C") made
\* on an empty journal, and no cursor entry.
TheJob == <<queue.context_type, 1>>

OnlyTheJob ==
    /\ Ids(journal) = {TheJob}
    /\ Entry(journal, TheJob).context_id = "42"
    /\ Entry(journal, TheJob).title = "T"
    /\ Entry(journal, TheJob).content = "C"

\* The caller's last call was list_jobs(view) with the defaults of its other
\* parameters (use_cursor=True, limit=10, offset=0).
ListedByDefault(view) ==
    R.op = "list_jobs" /\ R.args = ListArgs(view, TRUE, DefaultLimit, 0)

\* C18: on the journal holding only the job of create_job("42", "T", "C"):
\* list_jobs(REMAINING) returns exactly that entry, with content "C";
\* job_complete of it returns; after that list_jobs(REMAINING) returns the
\* empty list and list_jobs(SUCCESS) returns exactly that entry.
C18_EndToEnd ==
    OnlyTheJob =>
        /\ (ListedByDefault(REMAINING) /\ ~HasTag(TheJob, queue.success_tag)
                /\ ~HasTag(TheJob, queue.failure_tag)) =>
              /\ R.raised = None
              /\ Len(R.value) = 1
              /\ R.value[1].id = TheJob
              /\ R.value[1].content = "C"
        /\ (R.op = "job_complete" /\ R.args.job_id = TheJob) =>
              /\ R.raised = None
              /\ HasTag(TheJob, queue.success_tag)
        /\ (ListedByDefault(REMAINING) /\ HasTag(TheJob, queue.success_tag)) =>
              /\ R.raised = None
              /\ R.value = <<>>
        /\ (ListedByDefault(SUCCESS) /\ HasTag(TheJob, queue.success_tag)) =>
              /\ R.raised = None
              /\ Len(R.value) = 1
              /\ R.value[1].id = TheJob

\* What process p's last call returned.
IdsReturnedTo(p) == {ret[p].value[k].id : k \in 1..Len(ret[p].value)}

\* C19: the job search of a list_jobs call with use_cursor is sent with the
\* query the call built from its own cursor search, whatever cursor entries
\* have arrived since: its created_at bound is the created_at of the cursor
\* that search found, it returns the REMAINING jobs created after that bound,
\* and nothing ties the two searches together.
C19_ListingReadsCursorOnce ==
    [][\A p \in Procs :
          (frame[p].pc = "search" /\ frame'[p].pc = "idle") =>
            LET b == AppliedBound(frame[p].query_components)
            IN  /\ Len(sent'[p]) = 2
                /\ sent'[p][1] = CursorSearch
                /\ sent'[p][2].params.q = frame[p].query_components
                /\ AppliedBound(sent'[p][2].params.q) = b
                /\ journal' = journal
                /\ ret'[p].raised = None
                /\ IdsReturnedTo(p)' =
                      {id \in TagView(REMAINING) : CreatedAt(id) > b}
      ]_vars

\* A listing with use_cursor has returned to a process a job created at or
\* before the newest cursor the journal held when the job search was made: the
\* other process's update_cursor arrived between the two searches.
C19_Witness ==
    \E p \in Procs :
        /\ frame[p].pc = "idle" /\ frame[p].raced
        /\ ret[p].op = "list_jobs" /\ ret[p].raised = None
        /\ Len(journal[queue.cursor_context_type]) = RaceCursors
        /\ \E id \in IdsReturnedTo(p) : CreatedAt(id) <= LatestCursorTime
        /\ AppliedBound(sent[p][2].params.q) < LatestCursorTime

\* C20: a job_complete or job_failed call for a job the caller's listing
\* returned sends the tag and nothing else, returns without error and adds
\* its tag to the job's tags, whatever tags the job has got since the listing
\* and whoever else was returned the same job.
C20_MarksAreNeverRejected ==
    [][\A p \in Procs :
          (ret'[p] # ret[p] /\ ret'[p].op \in {"job_complete", "job_failed"}) =>
            LET id == ret'[p].args.job_id
                tag == IF ret'[p].op = "job_complete" THEN queue.success_tag
                       ELSE queue.failure_tag
            IN  /\ id \in ReturnedTo(p)
                /\ Len(sent'[p]) = 1
                /\ sent'[p][1].json = [tags |-> <<tag>>]
                /\ ret'[p].raised = None
                /\ Entry(journal', id).tags = Entry(journal, id).tags \cup {tag}
      ]_vars

\* Both consumers were returned the same REMAINING job; one has marked it
\* complete and the other failed, both calls returned, and the job carries
\* both tags.
C20_Witness ==
    /\ ret["c1"].op = "job_complete" /\ ret["c1"].raised = None
    /\ ret["c2"].op = "job_failed" /\ ret["c2"].raised = None
    /\ ret["c1"].args.job_id = ret["c2"].args.job_id
    /\ HasTag(ret["c1"].args.job_id, queue.success_tag)
    /\ HasTag(ret["c1"].args.job_id, queue.failure_tag)

\* The facade's calls that check their parameters, with the exception each
\* raises for parameters that name nothing.
CheckedOps ==
    [update_token |-> "TokenInvalidParameters",
     set_user_group |-> "GroupInvalidParameters",
     delete_user_group |-> "GroupInvalidParameters"]

Misused(r) ==
    IF r.op = "update_token"
    THEN r.args.token_type = None /\ r.args.token_note = None
    ELSE r.args.username = None /\ r.args.email = None

\* C21: update_token with neither token_type nor token_note raises
\* TokenInvalidParameters, set_user_group and delete_user_group with neither
\* username nor email raise GroupInvalidParameters, and in each case the call
\* has sent no request; with a parameter given the call sends one request and
\* raises neither exception.
C21_MisuseRaisesBeforeAnyRequest ==
    R.op \in DOMAIN CheckedOps =>
        IF Misused(R)
        THEN R.raised = CheckedOps[R.op] /\ sent[Caller] = <<>> /\ R.http = NoStatus
        ELSE R.raised # CheckedOps[R.op] /\ Len(sent[Caller]) = 1

\* update_token called with neither parameter has raised.
C21_Witness ==
    /\ R.op = "update_token"
    /\ Misused(R)
    /\ R.raised = "TokenInvalidParameters"
    /\ sent[Caller] = <<>>
    /\ client.user = R.args.timeout

\* The path of the request that updates the tags of an entry.
TagsPath(journal_id, id) ==
    [journal_id |-> journal_id, coll |-> "entries", entry_id |-> id, sub |-> "tags"]

\* The last path segment of an entry_url as the journal writes it.
TrailingSegment(entry_url) == entry_url.entry_id

\* C22: each result of list_jobs carries as id the trailing path segment of
\* its entry_url, which names the entry the result was made from; job_complete
\* and job_failed called with an id a listing returned send their tag update to
\* journals/{journal_id}/entries/{id}/tags and change that entry and no other.
C22_JobIdRoundTrip ==
    [][\A p \in Procs :
          /\ (ret[p].op = "list_jobs" /\ ret[p].raised = None) =>
                \A k \in 1..Len(ret[p].value) :
                    LET job == ret[p].value[k]
                    IN  /\ job.id = TrailingSegment(job.entry_url)
                        /\ job.entry_url = EntryUrl(queue.journal_id, job.id)
                        /\ job.id \in Jobs(journal)
                        /\ job.title = Entry(journal, job.id).title
                        /\ job.created_at.t = Entry(journal, job.id).created_at
          /\ (ret'[p] # ret[p] /\ ret'[p].op \in {"job_complete", "job_failed"}) =>
                LET id == ret'[p].args.job_id
                IN  /\ id \in ReturnedTo(p)
                    /\ Len(sent'[p]) = 1
                    /\ sent'[p][1].path = TagsPath(queue.journal_id, id)
                    /\ Mutations(journal, journal') \subseteq {id}
                    /\ Entry(journal', id).tags # {}
      ]_vars

\* A listing returned two jobs to c2; c1 has marked one of them by the id its
\* own listing gave it, and that job carries the mark while the other has none.
C22_Witness ==
    /\ ret["c1"].op = "job_complete" /\ ret["c1"].raised = None
    /\ ret["c2"].op = "list_jobs" /\ ret["c2"].raised = None
    /\ Len(ret["c2"].value) = 2
    /\ ret["c1"].args.job_id \in IdsReturnedTo("c2")
    /\ sent["c1"][1].path = TagsPath(queue.journal_id, ret["c1"].args.job_id)
    /\ \A id \in IdsReturnedTo("c2") :
          Entry(journal, id).tags \ {<<queue.context_type>>,
                                     <<queue.context_type, Entry(journal, id).context_id>>}
            = IF id = ret["c1"].args.job_id THEN {queue.success_tag} ELSE {}

\* C23: a create_job call sends one create-entry request whose body has the
\* tags [context_type, context_type:context_id], the context_id given and the
\* queue's context_type; the entry a create_job adds to the journal is a job of
\* that context_type with those tags; and no step changes the queue's
\* configuration.
C23_JobsCarryTheQueuesContextType ==
    [][/\ queue' = queue
       /\ Called("create_job") =>
            LET body == sent'[Caller][1].json
                cid == ret'[Caller].args.context_id
            IN  /\ Len(sent'[Caller]) = 1
                /\ sent'[Caller][1].method = "post"
                /\ body.tags = <<(<<queue.context_type>>), <<queue.context_type, cid>>>>
                /\ body.context_id = cid
                /\ body.context_type = queue.context_type
                /\ \A id \in Mutations(journal, journal') :
                      /\ id \notin Ids(journal)
                      /\ Entry(journal', id).context_type = queue.context_type
                      /\ Entry(journal', id).context_id = cid
                      /\ Entry(journal', id).tags =
                            {<<queue.context_type>>, <<queue.context_type, cid>>}
       /\ \A id \in Jobs(journal') :
            Entry(journal', id).context_type = DEFAULT_CONTEXT_TYPE
      ]_vars

\* The queue has enqueued a second job after a cursor was written and the
\* first job was marked; both jobs have the context type the queue was
\* constructed with.
C23_Witness ==
    /\ R.op = "create_job" /\ R.raised = None
    /\ Cardinality(Jobs(journal)) = 2
    /\ Cursors(journal) # {}
    /\ \E id \in Jobs(journal) : HasTag(id, queue.success_tag)
    /\ \A id \in Jobs(journal) :
          /\ Entry(journal, id).context_type = DEFAULT_CONTEXT_TYPE
          /\ HasTag(id, <<DEFAULT_CONTEXT_TYPE, Entry(journal, id).context_id>>)
    /\ queue.context_type = DEFAULT_CONTEXT_TYPE

\* The journal J with its cursor entries taken away.
WithoutCursors(J) == [J EXCEPT ![queue.cursor_context_type] = <<>>]

\* The lists list_jobs(view, use_cursor=False, limit, offset) can return
\* against journal J.
ListsWithoutCursor(J, view, limit, offset) ==
    {s.outcome.value : s \in SearchStep(J, ViewComponents(view), limit, offset)}

\* C24: list_jobs with use_cursor=False sends the job search alone, with no
\* created_at term, and returns what it would return from the same journal without
\* its cursor entries: the jobs of the view from the start of the journal, as
\* many as limit and offset leave.
C24_NoCursorIgnoresCursors ==
    /\ \A v \in JobView, l \in Limits, o \in Offsets :
          ListsWithoutCursor(journal, v, l, o)
            = ListsWithoutCursor(WithoutCursors(journal), v, l, o)
    /\ (R.op = "list_jobs" /\ ~R.args.use_cursor) =>
          /\ sent[Caller] = <<JobSearch(ViewComponents(R.args.job_view),
                                        R.args.limit, R.args.offset)>>
          /\ BoundTerms(sent[Caller][1].params.q) = {}
          /\ R.raised = None
          /\ R.value \in ListsWithoutCursor(WithoutCursors(journal), R.args.job_view,
                                            R.args.limit, R.args.offset)
          /\ ReturnedIds \subseteq TagView(R.args.job_view)
          /\ Len(R.value) = Min2(R.args.limit,
                                 Max2(0, Cardinality(TagView(R.args.job_view))
                                           - R.args.offset))

\* A listing without the cursor returned a job created before the newest
\* cursor, from a journal that holds cursor entries.
C24_Witness ==
    /\ R.op = "list_jobs" /\ ~R.args.use_cursor /\ R.raised = None
    /\ Cardinality(Cursors(journal)) = MaxCursors
    /\ \E id \in ReturnedIds : CreatedAt(id) < LatestCursorTime
    /\ Len(R.value) >= 2

\* C25: a call through make_request whose request received a non-2xx response
\* raises BugoutResponseException with that response's status code and the
\* detail or the text of its body, whatever the Content-Type and the body of
\* the response; no other exception leaves make_request.
C25_RejectionIsAlwaysResponseError ==
    (ThroughMakeRequest /\ Rejected) =>
        /\ R.raised = "BugoutResponseException"
        /\ R.status_code = R.http
        /\ R.detail \in {"detail", "text"}

\* The name of an Authorization scheme, which is case-insensitive.
SchemeName(scheme) ==
    CASE scheme \in {"Bearer", "bearer"} -> "bearer"
      [] scheme \in {"Web3", "web3"} -> "web3"
      [] OTHER -> scheme

\* C26: every request a queue operation has sent authenticates with the scheme
\* of the auth_type the queue was constructed with: Web3 for a "web3" queue,
\* Bearer for a "bearer" queue.
C26_OneSchemeForAllOperations ==
    \A k \in 1..Len(sent[Caller]) :
        SchemeName(sent[Caller][k].headers.Authorization[1]) = queue.auth_type

\* The calls of the facade that go to its Journal sub-client.
JournalOps == {"search", "update_tags"}

\* C27: the request of a call of the facade's search or update_tags has the
\* timeout that was passed to that call, whatever another thread calling the
\* same facade did in between.
C27_TimeoutIsPerCallUnderThreads ==
    \A p \in Procs :
        ret[p].op \in JournalOps =>
            /\ Len(sent[p]) = 1
            /\ sent[p][1].timeout = ret[p].args.timeout

\* The entries the cursor lookup of list_jobs can be answered with.
CursorLookupIds ==
    UNION {{EntryIdOf(out.json[k].entry_url) : k \in 1..Len(out.json)}
            : out \in Serve(journal, clock, CursorSearch)}

\* C28: with cursor_context_type different from context_type, no entry is both
\* a job and a cursor, every listing of every view has returned jobs only, the
\* cursor lookup of list_jobs selects cursor entries only, and the bound a
\* listing applied is the created_at of a cursor entry.
C28_JobsAndCursorsNeverMix ==
    queue.cursor_context_type # queue.context_type =>
        /\ Jobs(journal) \cap Cursors(journal) = {}
        /\ CursorLookupIds \subseteq Cursors(journal)
        /\ \A view \in JobView : ListedIds(view) \cap Cursors(journal) = {}
        /\ ListReturned =>
              /\ ReturnedIds \subseteq Jobs(journal)
              /\ ReturnedIds \cap Cursors(journal) = {}
              /\ R.args.use_cursor =>
                    /\ sent[Caller][1] = CursorSearch
                    /\ \E c \in Cursors(journal) :
                          AppliedBound(sent[Caller][2].params.q) = CreatedAt(c)

\* A listing with the cursor returned a job from a journal whose newest entry
\* is a job, not a cursor.
C28_Witness ==
    /\ ListReturned /\ R.args.use_cursor
    /\ ReturnedIds # {}
    /\ Cursors(journal) # {}
    /\ \E id \in Jobs(journal) : CreatedAt(id) > LatestCursorTime
    /\ \E id \in Jobs(journal) : CreatedAt(id) < LatestCursorTime

\* The jobs that carry the success tag or the failure tag.
Marked == {id \in Jobs(journal) :
             HasTag(id, queue.success_tag) \/ HasTag(id, queue.failure_tag)}

\* The consumer's last call listed REMAINING and got the empty list, and
\* every job is marked.
Drained ==
    /\ Consuming(Caller)
    /\ R.op = "list_jobs" /\ R.raised = None /\ R.value = <<>>
    /\ R.args.job_view = REMAINING /\ ~R.args.use_cursor /\ R.args.offset = 0
    /\ TagView(REMAINING) = {}
    /\ Marked = Jobs(journal)
    /\ frame[Caller].start \subseteq frame[Caller].seen

\* C29: a consumer that keeps listing REMAINING without the cursor from offset
\* 0 and marking every job returned, no job being created and every call
\* succeeding, eventually is returned the empty list, with every job marked.
C29_ConsumerDrainsTheQueue == <>Drained

\* The consumer has drained a queue of MaxJobs jobs one job a page, marking
\* some complete and some failed.
C29_Witness ==
    /\ Drained
    /\ frame[Caller].limit = 1
    /\ Cardinality(frame[Caller].start) = MaxJobs
    /\ \E id \in Jobs(journal) : ~HasTag(id, queue.success_tag)
    /\ \E id \in Jobs(journal) : ~HasTag(id, queue.failure_tag)

\* C30: when the consumer paging REMAINING with successive offsets, marking
\* every job of a page before it lists the next, has got an empty page, its
\* pages have returned every job that was REMAINING when it began, each once.
C30_PagingWhileMarkingSkipsNothing ==
    (Consuming(Caller) /\ frame[Caller].done) =>
        /\ frame[Caller].seen = frame[Caller].start
        /\ frame[Caller].again = {}

====
